---- MODULE Spec2Model ----
(***************************************************************************)
(* A model of package toil: ParallelTransform (a fixed pool of workers     *)
(* pulling jobs from a buffered channel) and ParallelReduce (rounds of     *)
(* pairwise combination gated by a semaphore channel), in the variant that *)
(* writes into a pre-sized round buffer and in the variant of reduce.go    *)
(* that appends to the next round under a mutex.                           *)
(*                                                                         *)
(* Go indices are 0-based and kept as such in job.index, resultIndex and   *)
(* the loop counter i; a Go slice s is a TLA+ sequence and s[k] in Go is   *)
(* s[k+1] here.  A nil error is 0; an error is a positive integer.         *)
(* Goroutines of one kind are interchangeable, so idle workers, drain      *)
(* goroutines and goroutines past their call of f are counted, and the     *)
(* goroutines executing f are the set of their arguments.                  *)
(***************************************************************************)
EXTENDS Integers, Sequences, FiniteSets, TLC

\* ---------------------------------------------------------------- bounds
\* longest input of a ParallelTransform call
MaxTLen == 4
\* longest input of a ParallelReduce call
MaxRLen == 6
\* largest worker count a caller asks for (the smallest is -1: "use the CPU count")
MaxWorkers == 2
\* runtime.NumCPU() of the host
NumCPU == 3
\* longest chain of Options builder calls
MaxChain == 4

VARIABLES
    call,         \* which function is called: "transform", "reduce" (round buffer), "reduceMu" (reduce.go)
    v,            \* the caller's input slice
    optWorkers,   \* opts.workers as passed by the caller
    stopOnError,  \* opts.stopOnError
    fErrOn,       \* the user function f: the elements on which it returns an error
    fErrVal,      \* the user function f: the value it returns alongside an error
    fKind,        \* the user function f of a reduce: "concat" (associative) or "prefix" (not)
    pc,           \* position of the calling goroutine
    workers,      \* opts.workers inside the call (a copy: Options is passed by value)
    i,            \* loop counter of the calling goroutine
    results,      \* ParallelTransform: results
    jobs,         \* ParallelTransform: the buffered channel jobs
    closed,       \* ParallelTransform: jobs is closed
    spawned,      \* ParallelTransform: worker goroutines started
    ready,        \* ParallelTransform: workers waiting at "range jobs"
    drainers,     \* ParallelTransform: drain goroutines alive
    wg,           \* counter of the sync.WaitGroup
    firstErr,     \* the error latch (firstErr; err in reduce.go)
    running,      \* the invocations of f in flight: jobs (transform) or [a, b, resultIndex] (reduce)
    items,        \* ParallelReduce: items of the current round
    next,         \* ParallelReduce: next
    sem,          \* ParallelReduce: number of tokens in the channel sem
    finishing,    \* ParallelReduce: goroutines whose f returned, before <-sem and wg.Done()
    round,        \* ParallelReduce: number of the current round (history)
    started,      \* history: how often f was invoked, per <<round, index>>
    errored,      \* history: the <<round, index>> whose invocation returned an error
    retOut,       \* returned value: the []O of ParallelTransform, the T of ParallelReduce
    retNil,       \* ParallelTransform returned a nil slice
    retErr,       \* returned error
    oPrev,        \* Options builders: the receiver before the last builder call (history)
    oRecv,        \* Options builders: the receiver, as its owner holds it after the call
    oRet,         \* Options builders: the value the last builder call returned
    oCall,        \* Options builders: the last builder call and its argument (history)
    oCalls,       \* Options builders: number of chained builder calls so far
    writes,       \* history: how often each slot of results, or of this round's next, was written
    itemsArr,     \* ParallelReduce: the backing array of the slice items
    bufArr        \* the backing array of the slice that is written: results, or next

vars == <<call, v, optWorkers, stopOnError, fErrOn, fErrVal, fKind, pc, workers, i,
          results, jobs, closed, spawned, ready, drainers, wg, firstErr, running,
          items, next, sem, finishing, round, started, errored, retOut, retNil, retErr,
          oPrev, oRecv, oRet, oCall, oCalls, writes, itemsArr, bufArr>>

optionVars == <<oPrev, oRecv, oRet, oCall, oCalls>>
paramVars == <<call, optWorkers, stopOnError, fErrOn, fErrVal, fKind, optionVars>>
inputVars == <<v, paramVars>>
arrVars == <<itemsArr, bufArr>>
transformVars == <<results, jobs, closed, spawned, ready, drainers>>
reduceVars == <<items, next, sem, finishing, round>>
retVars == <<retOut, retNil, retErr>>

\* ------------------------------------------------------------- helpers
\* the zero value of int, and of string (a string is the sequence of its characters)
ZeroInt == 0
ZeroStr == << >>

\* the input 1, 2, ..., n of a transform, and "1", "2", ..., "n" of a reduce
IntInput(n) == [k \in 1..n |-> k]
StrInput(n) == [k \in 1..n |-> <<k>>]

\* the characters of a string
Chars(s) == {s[k] : k \in 1..Len(s)}

\* make([]O, n), make([]T, n)
MakeInts(n) == [k \in 1..n |-> ZeroInt]
MakeStrs(n) == [k \in 1..n |-> ZeroStr]

\* if opts.workers <= 0 { opts.workers = runtime.NumCPU() }
EffectiveWorkers(w) == IF w <= 0 THEN NumCPU ELSE w

\* WaitOver with the wait missing: the caller goes on at once
WaitOverAtOnce(n) == TRUE

\* wg.Wait(): the caller goes on when the counter is zero
WaitOver(n) == n = 0

\* defer wg.Done() left out
WgDoneMissing(n) == n

\* wg.Done(): the counter after a goroutine ended
WgDone(n) == n - 1

\* the user function of a transform: doubles x, or fails on the elements of fErrOn
TransformF(x) ==
    IF x \in fErrOn THEN [val |-> fErrVal, err |-> x]
                    ELSE [val |-> 2 * x, err |-> 0]

\* the user function of a reduce, failing when an operand holds a character of fErrOn:
\* string concatenation a + b (associative, not commutative), or "0" + a + b (neither:
\* the result spells out the bracketing, as the prefix form of the expression)
ReduceF(a, b) ==
    IF Chars(a \o b) \cap fErrOn # {} THEN [val |-> ZeroStr, err |-> a[Len(a)]]
    ELSE IF fKind = "concat" THEN [val |-> a \o b, err |-> 0]
    ELSE [val |-> <<0>> \o a \o b, err |-> 0]

\* CompareAndSwap that never stores: the error is lost
CompareAndSwapLost(latch, e) == latch

\* CompareAndSwap as a plain store: the last error wins
CompareAndSwapLast(latch, e) == e

\* firstErr.CompareAndSwap(nil, &err): the latch after the call
CompareAndSwap(latch, e) == IF latch = 0 THEN e ELSE latch

\* one more write of slot k (1-based) of the buffer
Written(k) ==
    IF k \in DOMAIN writes THEN [writes EXCEPT ![k] = @ + 1]
                           ELSE writes @@ (k :> 1)

\* one more invocation of f under id
Invoke(id) ==
    IF id \in DOMAIN started THEN [started EXCEPT ![id] = @ + 1]
                             ELSE started @@ (id :> 1)

\* number of invocations of f so far
RECURSIVE SumOver(_, _)
SumOver(fn, S) ==
    IF S = {} THEN 0
    ELSE LET x == CHOOSE y \in S : TRUE IN fn[x] + SumOver(fn, S \ {x})
Calls == SumOver(started, DOMAIN started)

\* backing arrays: that of a nil slice (none), that of the caller's input slice v, and
\* the n-th array the call allocates
NilArray == [by |-> "nil", n |-> 0]
CallerArray == [by |-> "caller", n |-> 0]

\* NewArray reusing the array of the slice the values are computed from (src[:0])
NewArrayInPlace(src, n) == src

\* the array of make([]O, len(v)), of make([]T, nextCap), and of the appends to a nil
\* next in reduce.go: a new one, whatever the array src of the slice that is read
NewArray(src, n) == [by |-> "make", n |-> n]

\* the slice s over the array sArr, after slot k (1-based) of the array arr was written
WriteShared(s, sArr, arr, k, val) ==
    IF sArr = arr /\ k \in DOMAIN s THEN [s EXCEPT ![k] = val] ELSE s

\* Options{}: the zero value of the struct
ZeroOptions == [workers |-> 0, stopOnError |-> FALSE]

\* the state of a call before its first step
CallStart ==
    /\ pc = "entry"
    /\ workers = optWorkers
    /\ i = 0
    /\ results = << >>
    /\ jobs = << >>
    /\ closed = FALSE
    /\ spawned = 0
    /\ ready = 0
    /\ drainers = 0
    /\ wg = 0
    /\ firstErr = 0
    /\ running = {}
    /\ items = << >>
    /\ next = << >>
    /\ sem = 0
    /\ finishing = 0
    /\ round = 0
    /\ started = << >>
    /\ errored = {}
    /\ retOut = << >>
    /\ retNil = FALSE
    /\ retErr = 0
    /\ writes = << >>
    /\ itemsArr = NilArray
    /\ bufArr = NilArray

\* the state of the Options builders before any builder call: Options{}
OptionsStart ==
    /\ oPrev = ZeroOptions
    /\ oRecv = ZeroOptions
    /\ oRet = ZeroOptions
    /\ oCall = [op |-> "none", workers |-> 0, stopOnError |-> FALSE]
    /\ oCalls = 0

\* ------------------------------------------------------------- Init
Init ==
    /\ call \in {"transform", "reduce", "reduceMu"}
    /\ optWorkers \in -1..MaxWorkers
    /\ \E n \in 0..(IF call = "transform" THEN MaxTLen ELSE MaxRLen) :
          /\ v = IF call = "transform" THEN IntInput(n) ELSE StrInput(n)
          /\ fErrOn \in SUBSET (1..n)
    /\ stopOnError \in IF call = "transform" THEN BOOLEAN ELSE {FALSE}
    /\ fErrVal \in IF call = "transform" /\ fErrOn # {} THEN {ZeroInt, -1} ELSE {ZeroInt}
    /\ fKind \in IF call = "transform" THEN {"concat"} ELSE {"concat", "prefix"}
    /\ CallStart
    /\ OptionsStart

\* ------------------------------------------------ ParallelTransform
\* TransformResult with the results returned in place of nil when stopping on error
TransformResultKeepsOutput(latch, stop, res) ==
    IF latch # 0 THEN [out |-> res, isNil |-> FALSE, err |-> latch]
                 ELSE [out |-> res, isNil |-> FALSE, err |-> 0]

\* TransformResult with the latched error dropped when continuing on error
TransformResultDropsError(latch, stop, res) ==
    IF latch # 0 /\ stop THEN [out |-> << >>, isNil |-> TRUE, err |-> latch]
                         ELSE [out |-> res, isNil |-> FALSE, err |-> 0]

\* what ParallelTransform returns once wg.Wait() is over
TransformResult(latch, stop, res) ==
    IF latch # 0
    THEN IF stop THEN [out |-> << >>, isNil |-> TRUE, err |-> latch]
                 ELSE [out |-> res, isNil |-> FALSE, err |-> latch]
    ELSE [out |-> res, isNil |-> FALSE, err |-> 0]

\* TransformEarlyReturn with the early return missing
TransformNoEarlyReturn(n) == FALSE

\* len(v) == 0: the early return
TransformEarlyReturn(n) == n = 0

\* entry: the worker count, make(results), the early return, make(jobs)
TEntry ==
    /\ call = "transform" /\ pc = "entry"
    /\ workers' = EffectiveWorkers(optWorkers)
    /\ results' = MakeInts(Len(v))
    /\ bufArr' = NewArray(CallerArray, 1)
    /\ IF TransformEarlyReturn(Len(v))
       THEN /\ pc' = "done"
            /\ retOut' = results' /\ retNil' = FALSE /\ retErr' = 0
       ELSE /\ pc' = "spawn"
            /\ UNCHANGED retVars
    /\ UNCHANGED <<inputVars, itemsArr, writes, i, jobs, closed, spawned, ready, drainers, wg,
                   firstErr, running, reduceVars, started, errored>>

\* for i := 0; i < opts.workers; i++ { wg.Add(1); go func() {...}() }
TSpawn ==
    /\ call = "transform" /\ pc = "spawn"
    /\ IF i < workers
       THEN /\ wg' = wg + 1
            /\ spawned' = spawned + 1
            /\ ready' = ready + 1
            /\ i' = i + 1
            /\ pc' = pc
       ELSE /\ i' = 0
            /\ pc' = "send"
            /\ UNCHANGED <<wg, spawned, ready>>
    /\ UNCHANGED <<inputVars, arrVars, writes, workers, results, jobs, closed, drainers, firstErr,
                   running, reduceVars, started, errored, retVars>>

\* for i, item := range v { jobs <- transformJob{item, i} }; close(jobs)
\* (the channel holds len(v) jobs, so a send never blocks)
TSend ==
    /\ call = "transform" /\ pc = "send"
    /\ IF i < Len(v)
       THEN /\ jobs' = Append(jobs, [item |-> v[i + 1], index |-> i])
            /\ i' = i + 1
            /\ UNCHANGED <<closed, pc>>
       ELSE /\ closed' = TRUE
            /\ pc' = "wait"
            /\ UNCHANGED <<jobs, i>>
    /\ UNCHANGED <<inputVars, arrVars, writes, workers, results, spawned, ready, drainers, wg, firstErr,
                   running, reduceVars, started, errored, retVars>>

\* wg.Wait(), then the check of the latch and the return
TReturn ==
    /\ call = "transform" /\ pc = "wait"
    /\ WaitOver(wg)
    /\ LET r == TransformResult(firstErr, stopOnError, results) IN
          /\ retOut' = r.out /\ retNil' = r.isNil /\ retErr' = r.err
    /\ pc' = "done"
    /\ UNCHANGED <<inputVars, arrVars, writes, workers, i, transformVars, wg, firstErr, running,
                   reduceVars, started, errored>>

\* a worker receives a job from the channel and calls f(job.item)
WPull ==
    /\ call = "transform"
    /\ ready > 0 /\ jobs # << >>
    /\ LET job == Head(jobs) IN
          /\ running' = running \cup {job}
          /\ started' = Invoke(<<0, job.index>>)
    /\ jobs' = Tail(jobs)
    /\ ready' = ready - 1
    /\ UNCHANGED <<inputVars, arrVars, writes, pc, workers, i, results, closed, spawned, drainers, wg,
                   firstErr, reduceVars, errored, retVars>>

\* a worker finds the channel closed and empty: the range loop ends, wg.Done()
WExit ==
    /\ call = "transform"
    /\ ready > 0 /\ jobs = << >> /\ closed
    /\ ready' = ready - 1
    /\ wg' = WgDone(wg)
    /\ UNCHANGED <<inputVars, arrVars, writes, pc, workers, i, results, jobs, closed, spawned, drainers,
                   firstErr, running, reduceVars, started, errored, retVars>>

\* WriteIndex with every result written to the slot of the worker's first job
WriteIndexFirstSlot(job) == 1

\* the slot of results a worker writes for a job
WriteIndex(job) == job.index + 1

\* StopsOnError with the return after an error left out: a worker goes on pulling jobs
StopsOnErrorNever(err, stop) == FALSE

\* StopsOnError with opts.stopOnError not looked at: a worker leaves on any error
StopsOnAnyError(err, stop) == err # 0

\* a worker's step when f returned an error and opts.stopOnError holds:
\* TRUE when it leaves (starting a drain goroutine) without writing the result
StopsOnError(err, stop) == err # 0 /\ stop

\* f returns in a worker: the latch, the drain goroutine, the write of the result
WReturn(job) ==
    /\ call = "transform"
    /\ job \in running
    /\ LET r == TransformF(job.item) IN
          /\ errored' = IF r.err # 0 THEN errored \cup {<<0, job.index>>} ELSE errored
          /\ firstErr' = IF r.err # 0 THEN CompareAndSwap(firstErr, r.err) ELSE firstErr
          /\ IF StopsOnError(r.err, stopOnError)
             THEN /\ drainers' = drainers + 1
                  /\ wg' = WgDone(wg)
                  /\ UNCHANGED <<results, ready, writes, v>>
             ELSE /\ results' = [results EXCEPT ![WriteIndex(job)] = r.val]
                  /\ v' = WriteShared(v, CallerArray, bufArr, WriteIndex(job), r.val)
                  /\ writes' = Written(WriteIndex(job))
                  /\ ready' = ready + 1
                  /\ UNCHANGED <<drainers, wg>>
    /\ running' = running \ {job}
    /\ UNCHANGED <<paramVars, arrVars, pc, workers, i, jobs, closed, spawned, reduceVars,
                   started, retVars>>

\* a drain goroutine consumes a job ("for range jobs {}")
Drain ==
    /\ call = "transform"
    /\ drainers > 0 /\ jobs # << >>
    /\ jobs' = Tail(jobs)
    /\ UNCHANGED <<inputVars, arrVars, writes, pc, workers, i, results, closed, spawned, ready, drainers,
                   wg, firstErr, running, reduceVars, started, errored, retVars>>

\* a drain goroutine finds the channel closed and empty, and ends
DrainExit ==
    /\ call = "transform"
    /\ drainers > 0 /\ jobs = << >> /\ closed
    /\ drainers' = drainers - 1
    /\ UNCHANGED <<inputVars, arrVars, writes, pc, workers, i, results, jobs, closed, spawned, ready,
                   wg, firstErr, running, reduceVars, started, errored, retVars>>

\* --------------------------------------------------- ParallelReduce
\* NextCap rounding down: len(items) / 2
NextCapFloor(m) == m \div 2

\* nextCap := (len(items) + 1) / 2
NextCap(m) == (m + 1) \div 2

\* SemCap with one token too many
SemCapOneMore(w) == w + 1

\* SemCap with one token too few
SemCapOneLess(w) == w - 1

\* sem := make(chan struct{}, opts.workers): the capacity of sem
SemCap(w) == w

\* next at the start of a round: make([]T, nextCap) in the round-buffer variant,
\* a nil slice in reduce.go
NewNext(m) == IF call = "reduce" THEN MakeStrs(NextCap(m)) ELSE << >>

\* StoreIndex taking the next slot no result was stored in yet, in the order the
\* goroutines finish
StoreIndexByCompletion(nxt, resultIndex) == Cardinality(DOMAIN writes) + 1

\* the slot of next (1-based) a goroutine stores its result in: resultIndex in the
\* round-buffer variant, the slot append adds in reduce.go
StoreIndex(nxt, resultIndex) ==
    IF call = "reduce" THEN resultIndex + 1 ELSE Len(nxt) + 1

\* CarryIndex taking the slot of the last pair: len(items)/2 - 1
CarryIndexLastPair(nxt, its) ==
    IF call = "reduce" THEN Len(its) \div 2 ELSE Len(nxt) + 1

\* the slot of next (1-based) the odd element is carried to: nextCap-1 in the
\* round-buffer variant, the slot append adds in reduce.go
CarryIndex(nxt, its) ==
    IF call = "reduce" THEN NextCap(Len(its)) ELSE Len(nxt) + 1

\* next after a goroutine stored res: next[resultIndex] = res in the round-buffer
\* variant, next = append(next, res) in reduce.go
StoreResult(nxt, resultIndex, res) ==
    IF call = "reduce" THEN [nxt EXCEPT ![StoreIndex(nxt, resultIndex)] = res]
                       ELSE Append(nxt, res)

\* CarryOdd with the odd element left out of the next round
CarryOddDropped(nxt, its) == nxt

\* next after the odd element was carried: next[nextCap-1] = items[len(items)-1] in
\* the round-buffer variant, next = append(next, items[len(items)-1]) in reduce.go
CarryOdd(nxt, its) ==
    IF call = "reduce" THEN [nxt EXCEPT ![CarryIndex(nxt, its)] = its[Len(its)]]
                       ELSE Append(nxt, its[Len(its)])

\* ReduceEarly returning the zero value for n <= 1
ReduceEarlyZero(in) ==
    IF Len(in) <= 1 THEN [ret |-> TRUE, val |-> ZeroStr]
                    ELSE [ret |-> FALSE, val |-> ZeroStr]

\* the returns of ParallelReduce before any round: n == 0 and n == 1
ReduceEarly(in) ==
    IF Len(in) = 0 THEN [ret |-> TRUE, val |-> ZeroStr]
    ELSE IF Len(in) = 1 THEN [ret |-> TRUE, val |-> in[1]]
    ELSE [ret |-> FALSE, val |-> ZeroStr]

\* RoundFailed with the latch never looked at
RoundFailedIgnored(latch) == FALSE

\* the check of the latch after wg.Wait(): TRUE when the call returns zero and the error
RoundFailed(latch) == latch # 0

\* MorePairs stopping one pair early: i < len(items)-2
MorePairsOneLess(idx, m) == idx < m - 2

\* the condition of the dispatch loop: i < len(items)-1
MorePairs(idx, m) == idx < m - 1

\* entry: n == 0, n == 1, the worker count, items := v
REntry ==
    /\ call \in {"reduce", "reduceMu"} /\ pc = "entry"
    /\ LET e == ReduceEarly(v) IN
          IF e.ret
          THEN /\ pc' = "done"
               /\ retOut' = e.val /\ retNil' = FALSE /\ retErr' = 0
               /\ UNCHANGED <<workers, items, itemsArr>>
          ELSE /\ workers' = EffectiveWorkers(optWorkers)
               /\ items' = v
               /\ itemsArr' = CallerArray
               /\ pc' = "round"
               /\ UNCHANGED retVars
    /\ UNCHANGED <<inputVars, bufArr, writes, i, transformVars, wg, firstErr, running, next, sem,
                   finishing, round, started, errored>>

\* for len(items) > 1 { next, wg, firstErr, sem of the round ... }; return items[0], nil
RRound ==
    /\ call \in {"reduce", "reduceMu"} /\ pc = "round"
    /\ IF Len(items) > 1
       THEN /\ next' = NewNext(Len(items))
            /\ bufArr' = NewArray(itemsArr, round + 1)
            /\ firstErr' = 0
            /\ sem' = 0
            /\ wg' = 0
            /\ i' = 0
            /\ round' = round + 1
            /\ writes' = << >>
            /\ pc' = "dispatch"
            /\ UNCHANGED retVars
       ELSE /\ retOut' = items[1] /\ retNil' = FALSE /\ retErr' = 0
            /\ pc' = "done"
            /\ UNCHANGED <<next, bufArr, firstErr, sem, wg, i, round, writes>>
    /\ UNCHANGED <<inputVars, itemsArr, workers, transformVars, running, items, finishing,
                   started, errored>>

\* for i := 0; i < len(items)-1; i += 2 { wg.Add(1); sem <- struct{}{}; go func(...) }
\* (the send blocks while sem is full; the goroutine starts by calling f(a, b))
RDispatch ==
    /\ call \in {"reduce", "reduceMu"} /\ pc = "dispatch"
    /\ IF MorePairs(i, Len(items))
       THEN /\ sem < SemCap(workers)
            /\ sem' = sem + 1
            /\ wg' = wg + 1
            /\ running' = running \cup
                  {[a |-> items[i + 1], b |-> items[i + 2], resultIndex |-> i \div 2]}
            /\ started' = Invoke(<<round, i \div 2>>)
            /\ i' = i + 2
            /\ pc' = pc
       ELSE /\ pc' = "odd"
            /\ UNCHANGED <<sem, wg, running, started, i>>
    /\ UNCHANGED <<inputVars, arrVars, writes, workers, transformVars, firstErr, items, next, finishing,
                   round, errored, retVars>>

\* if len(items)%2 == 1 { carry the last item }
ROdd ==
    /\ call \in {"reduce", "reduceMu"} /\ pc = "odd"
    /\ next' = IF Len(items) % 2 = 1 THEN CarryOdd(next, items) ELSE next
    /\ writes' = IF Len(items) % 2 = 1 THEN Written(CarryIndex(next, items)) ELSE writes
    /\ LET k == CarryIndex(next, items) IN
          IF Len(items) % 2 = 1
          THEN /\ v' = WriteShared(v, CallerArray, bufArr, k, items[Len(items)])
               /\ items' = WriteShared(items, itemsArr, bufArr, k, items[Len(items)])
          ELSE UNCHANGED <<v, items>>
    /\ pc' = "wait"
    /\ UNCHANGED <<paramVars, arrVars, workers, i, transformVars, wg, firstErr, running,
                   sem, finishing, round, started, errored, retVars>>

\* wg.Wait(); the check of the latch; items = next
RWait ==
    /\ call \in {"reduce", "reduceMu"} /\ pc = "wait"
    /\ WaitOver(wg)
    /\ IF RoundFailed(firstErr)
       THEN /\ retOut' = ZeroStr /\ retNil' = FALSE /\ retErr' = firstErr
            /\ pc' = "done"
            /\ UNCHANGED <<items, itemsArr>>
       ELSE /\ items' = next
            /\ itemsArr' = bufArr
            /\ pc' = "round"
            /\ UNCHANGED retVars
    /\ UNCHANGED <<inputVars, bufArr, writes, workers, i, transformVars, wg, firstErr, running,
                   next, sem, finishing, round, started, errored>>

\* f returns in a goroutine: the latch (CompareAndSwap; "if e != nil && err == nil"
\* under the mutex in reduce.go) and the store of the result
RReturn(t) ==
    /\ call \in {"reduce", "reduceMu"}
    /\ t \in running
    /\ LET r == ReduceF(t.a, t.b) IN
          /\ errored' = IF r.err # 0 THEN errored \cup {<<round, t.resultIndex>>} ELSE errored
          /\ firstErr' = IF r.err # 0 THEN CompareAndSwap(firstErr, r.err) ELSE firstErr
          /\ next' = StoreResult(next, t.resultIndex, r.val)
          /\ writes' = Written(StoreIndex(next, t.resultIndex))
          /\ v' = WriteShared(v, CallerArray, bufArr, StoreIndex(next, t.resultIndex), r.val)
          /\ items' = WriteShared(items, itemsArr, bufArr, StoreIndex(next, t.resultIndex), r.val)
    /\ running' = running \ {t}
    /\ finishing' = finishing + 1
    /\ UNCHANGED <<paramVars, arrVars, pc, workers, i, transformVars, wg, sem, round,
                   started, retVars>>

\* the end of a goroutine: <-sem and wg.Done()
RRelease ==
    /\ call \in {"reduce", "reduceMu"}
    /\ finishing > 0
    /\ finishing' = finishing - 1
    /\ sem' = sem - 1
    /\ wg' = WgDone(wg)
    /\ UNCHANGED <<inputVars, arrVars, writes, pc, workers, i, transformVars, firstErr, running, items,
                   next, round, started, errored, retVars>>

Next ==
    \/ TEntry
    \/ TSpawn
    \/ TSend
    \/ TReturn
    \/ WPull
    \/ WExit
    \/ \E job \in running : WReturn(job)
    \/ Drain
    \/ DrainExit
    \/ REntry
    \/ RRound
    \/ RDispatch
    \/ ROdd
    \/ RWait
    \/ \E t \in running : RReturn(t)
    \/ RRelease

Spec == Init /\ [][Next]_vars

\* ------------------------------------------------- Options builders
\* WithWorkers on a pointer receiver: the owner's value is changed too
WithWorkersInPlace(o, n) ==
    LET o2 == [o EXCEPT !.workers = n] IN [ret |-> o2, recv |-> o2]

\* func (o Options) WithWorkers(workers int) Options: o is a copy of the receiver;
\* ret is the returned value, recv the receiver as its owner holds it afterwards
WithWorkers(o, n) ==
    LET o2 == [o EXCEPT !.workers = n] IN [ret |-> o2, recv |-> o]

\* func (o Options) StopOnError(stopOnError bool) Options
StopOnError(o, b) ==
    LET o2 == [o EXCEPT !.stopOnError = b] IN [ret |-> o2, recv |-> o]

\* a builder call on the value the previous call returned (a chain) or on the
\* receiver of the previous call (Options{} at first)
OWithWorkers ==
    /\ call = "options" /\ oCalls < MaxChain
    /\ \E n \in -1..MaxWorkers, o \in {oRecv, oRet} :
          LET r == WithWorkers(o, n) IN
             /\ oPrev' = o
             /\ oRecv' = r.recv
             /\ oRet' = r.ret
             /\ oCall' = [op |-> "WithWorkers", workers |-> n, stopOnError |-> FALSE]
    /\ oCalls' = oCalls + 1
    /\ UNCHANGED <<call, v, optWorkers, stopOnError, fErrOn, fErrVal, fKind, pc, workers, i,
                   writes, transformVars, wg, firstErr, running, reduceVars, started, errored,
                   retVars, arrVars>>

OStopOnError ==
    /\ call = "options" /\ oCalls < MaxChain
    /\ \E b \in BOOLEAN, o \in {oRecv, oRet} :
          LET r == StopOnError(o, b) IN
             /\ oPrev' = o
             /\ oRecv' = r.recv
             /\ oRet' = r.ret
             /\ oCall' = [op |-> "StopOnError", workers |-> 0, stopOnError |-> b]
    /\ oCalls' = oCalls + 1
    /\ UNCHANGED <<call, v, optWorkers, stopOnError, fErrOn, fErrVal, fKind, pc, workers, i,
                   writes, transformVars, wg, firstErr, running, reduceVars, started, errored,
                   retVars, arrVars>>

\* chains of builder calls starting from Options{}; no call of Transform or Reduce
OInit ==
    /\ call = "options"
    /\ v = << >>
    /\ optWorkers = 0
    /\ stopOnError = FALSE
    /\ fErrOn = {}
    /\ fErrVal = ZeroInt
    /\ fKind = "concat"
    /\ CallStart
    /\ OptionsStart

ONext ==
    \/ OWithWorkers
    \/ OStopOnError

OptionsSpec == OInit /\ [][ONext]_vars

\* the calls of ParallelTransform alone, under fair scheduling: while a goroutine of
\* the call can take a step (f returning is such a step), some step is taken
TInit == Init /\ call = "transform"

TNext ==
    \/ TEntry
    \/ TSpawn
    \/ TSend
    \/ TReturn
    \/ WPull
    \/ WExit
    \/ \E job \in running : WReturn(job)
    \/ Drain
    \/ DrainExit

TransformFairSpec == TInit /\ [][TNext]_vars /\ WF_vars(TNext)

\* the calls of ParallelReduce alone (both variants), under fair scheduling
RInit == Init /\ call \in {"reduce", "reduceMu"}

RNext ==
    \/ REntry
    \/ RRound
    \/ RDispatch
    \/ ROdd
    \/ RWait
    \/ \E t \in running : RReturn(t)
    \/ RRelease

ReduceFairSpec == RInit /\ [][RNext]_vars /\ WF_vars(RNext)

\* ------------------------------------------------------------ claims
\* the left-to-right fold f(...f(f(x0, x1), x2)..., x(N-1)) of a non-empty sequence
RECURSIVE LeftFold(_)
LeftFold(s) ==
    IF Len(s) = 1 THEN s[1]
    ELSE ReduceF(LeftFold(SubSeq(s, 1, Len(s) - 1)), s[Len(s)]).val

\* the indices (0-based) of a transform whose invocation returned an error
ErroredIndices == {id[2] : id \in errored}

\* C1: a ParallelTransform whose f never fails returns a nil error and an output of
\* the input's length with output[i] = f(input[i]) at every index, for every worker
\* count and every interleaving of the workers.
C1_TransformPreservesOrder ==
    (call = "transform" /\ pc = "done" /\ fErrOn = {}) =>
        /\ retErr = 0
        /\ ~retNil
        /\ Len(retOut) = Len(v)
        /\ \A k \in 1..Len(v) : retOut[k] = TransformF(v[k]).val

\* C1 witness: a call over three elements with at least two workers has returned.
C1_Witness ==
    /\ call = "transform" /\ pc = "done" /\ fErrOn = {}
    /\ Len(v) >= 3 /\ workers >= 2
    /\ retOut = <<2, 4, 6>>

\* C2: the round-buffer ParallelReduce with an error-free associative f (string
\* concatenation) returns the left-to-right fold of the input in its original order,
\* for every worker count and every interleaving.
C2_ReduceIsLeftFold ==
    (call = "reduce" /\ fKind = "concat" /\ pc = "done" /\ fErrOn = {} /\ Len(v) >= 1) =>
        /\ retErr = 0
        /\ retOut = LeftFold(v)

\* C2 witness: a reduce over five elements (an odd element carried in two rounds)
\* with more than one worker has returned the concatenation.
C2_Witness ==
    /\ call = "reduce" /\ fKind = "concat" /\ pc = "done" /\ fErrOn = {}
    /\ Len(v) = 5 /\ workers >= 2 /\ round = 3
    /\ retOut = <<1, 2, 3, 4, 5>>

\* C3: with stop-on-error, a ParallelTransform in which an invocation of f returned
\* an error returns a nil output and a non-nil error.
C3_FailFastReturnsNil ==
    (call = "transform" /\ pc = "done" /\ stopOnError /\ errored # {}) =>
        /\ retNil
        /\ retErr # 0

\* C3 witness: a stop-on-error call has returned after an invocation failed while
\* another invocation had succeeded and written its result.
C3_Witness ==
    /\ call = "transform" /\ pc = "done" /\ stopOnError
    /\ errored # {}
    /\ \E k \in 1..Len(results) : results[k] # ZeroInt

\* C4: without stop-on-error, ParallelTransform returns an output of the input's
\* length, and a non-nil error exactly when an invocation of f returned an error.
C4_ContinueLengthAndError ==
    (call = "transform" /\ pc = "done" /\ ~stopOnError) =>
        /\ ~retNil
        /\ Len(retOut) = Len(v)
        /\ (retErr # 0 <=> errored # {})

\* C4 witness: a continue-mode call has returned with some invocations failed and
\* some not.
C4_Witness ==
    /\ call = "transform" /\ pc = "done" /\ ~stopOnError
    /\ errored # {} /\ Cardinality(errored) < Len(v)
    /\ retErr # 0 /\ Len(retOut) = Len(v)

\* C5: without stop-on-error, the output of ParallelTransform holds the zero value at
\* every index whose invocation returned an error, whatever f returned with the error.
C5_ZeroAtFailedIndex ==
    (call = "transform" /\ pc = "done" /\ ~stopOnError) =>
        \A k \in ErroredIndices : retOut[k + 1] = ZeroInt

\* C6: in every state of a ParallelTransform or ParallelReduce call, the invocations
\* of f that have started and not returned are at most the effective worker count.
C6_BoundedInFlight ==
    Cardinality(running) <= EffectiveWorkers(optWorkers)

\* C6 witness: a reduce round has as many invocations in flight as there are workers
\* and a further pair waiting to be dispatched.
C6_Witness ==
    /\ call \in {"reduce", "reduceMu"} /\ pc = "dispatch"
    /\ i < Len(items) - 1
    /\ Cardinality(running) = EffectiveWorkers(optWorkers)

\* C7: with stop-on-error, once an error is latched in a ParallelTransform call no
\* invocation of f starts any more.
C7_NoStartAfterLatch ==
    [][(call = "transform" /\ stopOnError /\ firstErr # 0) => started' = started]_vars

\* C8: a ParallelReduce in which a pairwise invocation of f returned an error, in any
\* round, returns the zero value and a non-nil error.
C8_ReduceErrorReturnsZero ==
    (call \in {"reduce", "reduceMu"} /\ pc = "done" /\ errored # {}) =>
        /\ retOut = ZeroStr
        /\ retErr # 0

\* C8 witness: a reduce has returned after an invocation failed in a round later than
\* the first.
C8_Witness ==
    /\ call \in {"reduce", "reduceMu"} /\ pc = "done"
    /\ \E id \in errored : id[1] >= 2
    /\ retErr # 0

C10_TransformEmptyInput ==
    (call = "transform" /\ pc = "done" /\ Len(v) = 0) =>
        /\ retOut = << >> /\ ~retNil
        /\ retErr = 0
        /\ spawned = 0
        /\ Calls = 0

\* C10 witness: a stop-on-error call on an empty input has returned.
C10_Witness ==
    /\ call = "transform" /\ pc = "done" /\ Len(v) = 0 /\ stopOnError
    /\ retOut = << >> /\ ~retNil

\* C11: ParallelTransform and ParallelReduce are synchronous: when the call has
\* returned, with a result or an error, no invocation of f it started is executing.
C11_NoInvocationAfterReturn ==
    pc = "done" => running = {}

\* C11 witness: a stop-on-error transform has returned its error after at least two
\* invocations of f, one of which did not fail.
C11_Witness ==
    /\ call = "transform" /\ pc = "done" /\ stopOnError
    /\ retErr # 0
    /\ Calls >= 2 /\ Cardinality(errored) < Calls

\* C12: provided every invocation of f returns, every ParallelTransform call returns
\* under fair scheduling, in both modes, also when every worker has left after an
\* error while jobs are still queued.
C12_TransformReturns ==
    <>(call = "transform" /\ pc = "done")

\* C12 witness: a stop-on-error call has returned although its only worker left on
\* an error with jobs still in the channel.
C12_Witness ==
    /\ call = "transform" /\ pc = "done" /\ stopOnError
    /\ workers = 1 /\ errored # {}
    /\ Calls < Len(v)
    /\ retErr # 0

\* C13: provided every invocation of f returns, every ParallelReduce call returns
\* under fair scheduling, for every worker count (1 included) and every f, failing
\* or not.
C13_ReduceReturns ==
    <>(call \in {"reduce", "reduceMu"} /\ pc = "done")

\* C13 witness: a reduce of six elements with a single worker, whose dispatch loop
\* had to wait for the semaphore, has returned after three rounds.
C13_Witness ==
    /\ call \in {"reduce", "reduceMu"} /\ pc = "done"
    /\ workers = 1 /\ Len(v) = 6
    /\ round = 3 /\ retErr = 0

\* C14: in ParallelTransform f is invoked at most once per input element in either
\* mode, and without stop-on-error exactly once for every element before the call
\* returns, however many earlier invocations failed.
C14_InvokedOncePerElement ==
    call = "transform" =>
        /\ \A id \in DOMAIN started : started[id] <= 1
        /\ (pc = "done" /\ ~stopOnError) =>
              \A k \in 0..(Len(v) - 1) :
                  <<0, k>> \in DOMAIN started /\ started[<<0, k>>] = 1

\* C14 witness: a continue-mode call over four elements has returned after at least
\* two invocations failed, with four invocations made.
C14_Witness ==
    /\ call = "transform" /\ pc = "done" /\ ~stopOnError
    /\ Len(v) = 4 /\ Cardinality(errored) >= 2
    /\ Calls = 4

\* C15: Options is immutable under its builders: WithWorkers(n) and StopOnError(b)
\* return a value carrying the requested field, leave the receiver as it was, and
\* leave the other field of the returned value equal to the receiver's, along any
\* chain of builder calls.
C15_BuildersImmutable ==
    /\ oCall.op = "WithWorkers" =>
          /\ oRet.workers = oCall.workers
          /\ oRet.stopOnError = oPrev.stopOnError
          /\ oRecv = oPrev
    /\ oCall.op = "StopOnError" =>
          /\ oRet.stopOnError = oCall.stopOnError
          /\ oRet.workers = oPrev.workers
          /\ oRecv = oPrev

\* C15 witness: Options{}.StopOnError(true).WithWorkers(2).StopOnError(false): the
\* last call returns workers 2 and stopOnError false, its receiver still holds true.
C15_Witness ==
    /\ oCalls = 3
    /\ oCall.op = "StopOnError" /\ ~oCall.stopOnError
    /\ oPrev = [workers |-> 2, stopOnError |-> TRUE]
    /\ oRecv = oPrev
    /\ oRet = [workers |-> 2, stopOnError |-> FALSE]

\* what a round over its makes of next when each pair's result goes to the pair's
\* position and the odd element comes last
ExpectedNext(its) ==
    [k \in 1..((Len(its) + 1) \div 2) |->
        IF 2 * k <= Len(its) THEN ReduceF(its[2 * k - 1], its[2 * k]).val
                             ELSE its[Len(its)]]

\* a round is complete: every goroutine is over and the odd element is carried
RoundComplete == pc = "wait" /\ wg = 0

\* C16: in the ParallelReduce of reduce.go the position of each pair's result in the
\* next round is fixed by the pair's position in the current round, not by the order
\* in which the invocations finish, and the carried odd element is last.
C16_MutexVariantPositional ==
    (call = "reduceMu" /\ RoundComplete) => next = ExpectedNext(items)

\* the error an invocation in flight returns
InvocationErr(t) ==
    IF call = "transform" THEN TransformF(t.item).err ELSE ReduceF(t.a, t.b).err

\* C17: the error latch is first-write-wins: once it holds an error it does not
\* change, it is set from nil only to the error of an invocation returning in that
\* step, and a call that returns an error returns the latched one.
C17_LatchFirstWins ==
    [][/\ firstErr # 0 => firstErr' = firstErr
       /\ (firstErr = 0 /\ firstErr' # 0) =>
             \E t \in running \ running' : firstErr' = InvocationErr(t)
       /\ (pc # "done" /\ pc' = "done" /\ errored' # {}) => retErr' = firstErr
      ]_vars

\* C17 witness: a continue-mode transform in which the invocations on 1 and on 2 both
\* failed has returned the error of 2, which was latched first.
C17_Witness ==
    /\ call = "transform" /\ pc = "done" /\ ~stopOnError
    /\ {<<0, 0>>, <<0, 1>>} \subseteq errored
    /\ firstErr = 2 /\ retErr = 2

\* C18: during a ParallelTransform call and a ParallelReduce round each slot of the
\* output buffer or round buffer is written at most once: no two invocations write
\* the same slot, and the carry of the odd element writes a slot no pair writes.
C18_SlotsWrittenOnce ==
    \A k \in DOMAIN writes : writes[k] <= 1

\* C18 witness: a round-buffer round over five elements is complete: the two pair
\* results and the carried element were written, each to a slot of its own.
C18_Witness ==
    /\ call = "reduce" /\ RoundComplete
    /\ Len(items) = 5
    /\ DOMAIN writes = {1, 2, 3}
    /\ \A k \in DOMAIN writes : writes[k] = 1

\* C19: in every round-buffer ParallelReduce round over m > 1 elements, the next
\* round's sequence has length ceil(m/2), its slot k < floor(m/2) holds
\* f(items[2k], items[2k+1]), and for odd m its last slot holds items[m-1] unmodified.
C19_RoundBufferContents ==
    (call = "reduce" /\ RoundComplete) =>
        LET m == Len(items) IN
           /\ m > 1
           /\ 2 * Len(next) \in {m, m + 1}
           /\ \A k \in 0..((m \div 2) - 1) :
                 next[k + 1] = ReduceF(items[2 * k + 1], items[2 * k + 2]).val
           /\ m % 2 = 1 => next[Len(next)] = items[m]

\* C19 witness: the second round of a reduce of five elements is complete: "12" and
\* "34" were combined and "5", carried in the first round, is carried again.
C19_Witness ==
    /\ call = "reduce" /\ RoundComplete /\ round = 2
    /\ items = <<<<1, 2>>, <<3, 4>>, <<5>>>>
    /\ next = <<<<1, 2, 3, 4>>, <<5>>>>

\* C20: in ParallelReduce, once an invocation of f returned an error in a round, no
\* invocation of a later round starts and no later round is begun: the call returns
\* after the failing round.
C20_NoRoundAfterError ==
    call \in {"reduce", "reduceMu"} =>
        \A id \in errored :
            /\ round = id[1]
            /\ \A s \in DOMAIN started : s[1] <= id[1]

\* C20 witness: a reduce of six elements has returned the error of its first round,
\* in which all three pairs were invoked, without a second round.
C20_Witness ==
    /\ call \in {"reduce", "reduceMu"} /\ pc = "done"
    /\ Len(v) = 6 /\ round = 1
    /\ errored # {} /\ Calls = 3
    /\ retErr # 0

\* C22: in a ParallelTransform call with stop-on-error, every invocation of f that
\* returned an error has taken its worker out of the pool (the worker pulls no further
\* job), so the erroring invocations never outnumber the workers
C22_ErrorsBoundedByWorkers ==
    (call = "transform" /\ stopOnError) =>
        /\ Cardinality(errored) + ready + Cardinality(running) <= spawned
        /\ spawned <= EffectiveWorkers(optWorkers)
        /\ Cardinality(errored) <= EffectiveWorkers(optWorkers)

\* every worker of the pool has left on an error, with failing elements to spare
C22_Witness ==
    /\ call = "transform" /\ stopOnError /\ pc = "done"
    /\ Len(v) = MaxTLen /\ fErrOn = 1..MaxTLen
    /\ workers = 2
    /\ Cardinality(errored) = workers

\* the least r with 2^r >= n
CeilLog2(n) == CHOOSE r \in 0..n : 2^r >= n /\ (r = 0 \/ 2^(r - 1) < n)

\* the number of items at the start of round r (1-based) of a reduce over n elements
RoundLen(n, r) == (n + 2^(r - 1) - 1) \div 2^(r - 1)

\* the pairs <<round, index>> of a reduce over n elements
ExpectedPairs(n) ==
    {<<r, k>> \in (1..n) \X (0..n) : r <= CeilLog2(n) /\ k < RoundLen(n, r) \div 2}

\* C23: a ParallelReduce call (either variant) over N >= 1 elements with an error-free f
\* has, when it returns, invoked f exactly N-1 times and run exactly ceil(log2 N) rounds,
\* each pair of each round invoked exactly once, whatever the worker count
C23_CallsAndRounds ==
    (call \in {"reduce", "reduceMu"} /\ pc = "done" /\ fErrOn = {} /\ Len(v) >= 1) =>
        /\ Calls = Len(v) - 1
        /\ round = CeilLog2(Len(v))
        /\ DOMAIN started = ExpectedPairs(Len(v))
        /\ \A id \in DOMAIN started : started[id] = 1

\* a reduce over six elements returned after three rounds, the second of them with an
\* odd element carried
C23_Witness ==
    /\ call \in {"reduce", "reduceMu"} /\ pc = "done" /\ fErrOn = {}
    /\ Len(v) = MaxRLen /\ round = 3 /\ Calls = 5 /\ workers = 2

\* the value of the expression whose bracketing is fixed by position alone: pair the
\* neighbours 2k, 2k+1, carry an odd last element, and repeat on the results
RECURSIVE TreeFold(_)
TreeFold(its) == IF Len(its) = 1 THEN its[1] ELSE TreeFold(ExpectedNext(its))

\* C21: the round-buffer ParallelReduce with an error-free deterministic f, associative
\* or not, returns a value that is determined by the input and f alone (the fold along
\* the bracketing fixed by position): any two runs on the same input, whatever their
\* worker counts and interleavings, return the same value
C21_ResultFixedByPosition ==
    (call = "reduce" /\ pc = "done" /\ fErrOn = {} /\ Len(v) >= 1) =>
        /\ retErr = 0
        /\ retOut = TreeFold(v)

\* a reduce with the non-associative f over five elements and two workers has returned
\* ((1 2) (3 4)) 5 in prefix form, which differs from the left fold
C21_Witness ==
    /\ call = "reduce" /\ fKind = "prefix" /\ pc = "done" /\ fErrOn = {}
    /\ Len(v) = 5 /\ workers = 2
    /\ retOut = <<0, 0, 0, 1, 2, 0, 3, 4, 5>>
    /\ retOut # LeftFold(v)

\* C24: no step of a ParallelTransform or ParallelReduce call changes an element of the
\* caller's input slice, and the slice a step writes to (results, or the next of a
\* round) is never backed by the caller's array
C24_InputNeverWritten == [][v' = v /\ bufArr' # CallerArray]_vars

\* a reduce has failed in its third round, after a round that read the caller's array
\* and rounds that wrote their results and the carried element, and the input is as it was
C24_Witness ==
    /\ call = "reduce" /\ pc = "done" /\ retErr # 0 /\ round = 3
    /\ itemsArr = NewArray(CallerArray, 2) /\ bufArr = NewArray(itemsArr, 3)
    /\ Len(v) = 5 /\ v = StrInput(5)
    /\ DOMAIN writes = {1}

====
